---- MODULE Spec2Model ----
(***************************************************************************)
(* Jobly: the Job model (src/models/jobs.js), the users routes              *)
(* (src/routes/users.js) and the storage they run against.                  *)
(*                                                                          *)
(* A Job method is an async function: it builds a SQL statement, sends it   *)
(* with db.query and resumes when the storage engine answers.  CallX is the *)
(* synchronous part of a method up to its first await, DbRespond is one     *)
(* answer of the storage engine together with the code that runs on it up   *)
(* to the next await or to the method's end.                                *)
(*                                                                          *)
(* SQL NULL is NullStr in a text column and NullInt in a numeric column.    *)
(* equity is kept in hundredths (0.2 is 20).                                *)
(* Job.get is not modelled: no property below reads it.                     *)
(***************************************************************************)
EXTENDS Integers, Sequences, FiniteSets, TLC

VARIABLES jobs, nextId, pc, call, sent, outcome, ret, before,
          users, applications, req, stage, res, userCalls

jobVars  == <<jobs, nextId, pc, call, sent, outcome, ret, before>>
userVars == <<users, applications, req, stage, res, userCalls>>
vars     == <<jobs, nextId, pc, call, sent, outcome, ret, before,
              users, applications, req, stage, res, userCalls>>

(***************************** bounds **************************************)
MaxFields == 2
NumProcs  == 2
MaxId     == 6

Procs    == 1..NumProcs
SeqProcs == {1}

(***************************** values **************************************)
NullStr == "NULL"
NullInt == -999

Range(s) == {s[i] : i \in DOMAIN s}

(* companies created by commonBeforeAll *)
Companies == {"c1", "c2", "c3"}

(* the rows commonBeforeAll means to create, ids from the restarted sequence *)
FixtureJobs ==
  { [id |-> 1, title |-> "t1", salary |-> 5,  equity |-> 20, company_handle |-> "c1"],
    [id |-> 2, title |-> "t2", salary |-> 10, equity |-> 40, company_handle |-> "c2"],
    [id |-> 3, title |-> "t3", salary |-> 15, equity |-> 60, company_handle |-> "c3"] }

FirstFreeId == 4

(*************************** storage engine ********************************)
JobsColumns == {"id", "title", "salary", "equity", "company_handle"}

TextColumns == {"title", "company_handle"}

IsNull(col, v) == IF col \in TextColumns THEN v = NullStr ELSE v = NullInt

(* a = b in SQL: never true when either side is NULL *)
SqlEq(col, a, b) == ~IsNull(col, a) /\ ~IsNull(col, b) /\ a = b

SetCol(r, col, v) ==
  CASE col = "id"             -> [r EXCEPT !.id = v]
    [] col = "title"          -> [r EXCEPT !.title = v]
    [] col = "salary"         -> [r EXCEPT !.salary = v]
    [] col = "equity"         -> [r EXCEPT !.equity = v]
    [] col = "company_handle" -> [r EXCEPT !.company_handle = v]

RECURSIVE ApplySet(_, _, _, _)
ApplySet(r, assigns, params, i) ==
  IF i > Len(assigns) THEN r
  ELSE ApplySet(SetCol(r, assigns[i].col, params[assigns[i].ph]), assigns, params, i + 1)

(* the columns a statement names *)
ColumnsOf(q) ==
  {a.col : a \in Range(q.set)} \cup {w.col : w \in Range(q.where)}
    \cup Range(q.orderBy) \cup {x.col : x \in Range(q.returning)}

WhereHolds(r, q) ==
  \A i \in DOMAIN q.where :
    SqlEq(q.where[i].col, r[q.where[i].col], q.params[q.where[i].ph])

(* SELECT list / RETURNING list with its AS names *)
Project(r, returning) ==
  [a \in {x.as : x \in Range(returning)} |->
     r[(CHOOSE x \in Range(returning) : x.as = a).col]]

(* company_handle is required and references companies; salary is
   non-negative or absent; equity is in [0,1] or absent *)
RowOk(r) ==
  /\ r.company_handle # NullStr
  /\ r.company_handle \in Companies
  /\ (r.salary = NullInt \/ r.salary >= 0)
  /\ (r.equity = NullInt \/ (r.equity >= 0 /\ r.equity <= 100))
  /\ r.id # NullInt

KeyOk(table) == Cardinality({r.id : r \in table}) = Cardinality(table)

(* a statement is analysed before it runs: text that does not parse, or that
   names a column the table does not have, is rejected and changes nothing *)
StatementOk(q) == q.syntaxOk /\ ColumnsOf(q) \subseteq JobsColumns

Rejected(table, seq) == [err |-> TRUE, jobs |-> table, seq |-> seq, rows |-> {}]

(* a storage that runs every statement as far as it can, without analysing
   it first and without the constraints of the table *)
RECURSIVE ApplyKnown(_, _, _, _)
ApplyKnown(r, assigns, params, i) ==
  IF i > Len(assigns) THEN r
  ELSE ApplyKnown(IF assigns[i].col \in JobsColumns
                  THEN SetCol(r, assigns[i].col, params[assigns[i].ph]) ELSE r,
                  assigns, params, i + 1)

DbQueryNoChecks(table, seq, q) ==
  LET hit == {x \in table : \A i \in DOMAIN q.where :
                q.where[i].col \in JobsColumns
                  => SqlEq(q.where[i].col, x[q.where[i].col], q.params[q.where[i].ph])}
      ids(t) == {[id |-> r.id] : r \in t}
  IN CASE q.kind = "select" ->
            [err |-> FALSE, jobs |-> table, seq |-> seq, rows |-> ids(hit)]
       [] q.kind = "insert" ->
            LET row == ApplyKnown([id |-> seq, title |-> NullStr, salary |-> NullInt,
                                   equity |-> NullInt, company_handle |-> NullStr],
                                  q.set, q.params, 1)
            IN [err |-> FALSE, jobs |-> table \cup {row}, seq |-> seq + 1,
                rows |-> ids({row})]
       [] q.kind = "update" ->
            LET new == {ApplyKnown(x, q.set, q.params, 1) : x \in hit}
            IN [err |-> FALSE, jobs |-> (table \ hit) \cup new, seq |-> seq,
                rows |-> ids(new)]
       [] q.kind = "delete" ->
            [err |-> FALSE, jobs |-> table \ hit, seq |-> seq, rows |-> ids(hit)]

DbQuery(table, seq, q) ==
  IF ~StatementOk(q) THEN Rejected(table, seq)
  ELSE CASE q.kind = "select" ->
              [err |-> FALSE, jobs |-> table, seq |-> seq,
               rows |-> {Project(r, q.returning) : r \in {x \in table : WhereHolds(x, q)}}]
         [] q.kind = "insert" ->
              LET blank == [id |-> seq, title |-> NullStr, salary |-> NullInt,
                            equity |-> NullInt, company_handle |-> NullStr]
                  row   == ApplySet(blank, q.set, q.params, 1)
              IN IF RowOk(row) /\ KeyOk(table \cup {row})
                 THEN [err |-> FALSE, jobs |-> table \cup {row}, seq |-> seq + 1,
                       rows |-> {Project(row, q.returning)}]
                 ELSE Rejected(table, seq + 1)
         [] q.kind = "update" ->
              LET hit   == {x \in table : WhereHolds(x, q)}
                  new   == {ApplySet(x, q.set, q.params, 1) : x \in hit}
                  after == (table \ hit) \cup new
              IN IF (\A r \in new : RowOk(r)) /\ KeyOk(after)
                      /\ Cardinality(after) = Cardinality(table)
                 THEN [err |-> FALSE, jobs |-> after, seq |-> seq,
                       rows |-> {Project(r, q.returning) : r \in new}]
                 ELSE Rejected(table, seq)
         [] q.kind = "delete" ->
              LET hit == {x \in table : WhereHolds(x, q)}
              IN [err |-> FALSE, jobs |-> table \ hit, seq |-> seq,
                  rows |-> {Project(r, q.returning) : r \in hit}]

NoQuery ==
  [kind |-> "none", syntaxOk |-> TRUE, set |-> <<>>, where |-> <<>>,
   orderBy |-> <<>>, returning |-> <<>>, params |-> <<>>]

Plain(cols) == [i \in DOMAIN cols |-> [col |-> cols[i], as |-> cols[i]]]

(************************ partial-update builder ***************************)
(* data is a mapping in iteration order: data.keys lists its keys, data[k]
   is the value of key k *)
sqlForPartialUpdate(data) ==
  [setCols |-> [i \in 1..Len(data.keys) |-> [col |-> data.keys[i], ph |-> i]],
   values  |-> [i \in 1..Len(data.keys) |-> data[data.keys[i]]]]

(******************************* Job ***************************************)
(* WHERE title = $1, salary = $2, ...: the conditions are separated by
   commas, not AND, so the text does not parse *)
DuplicateCheckSql(title, salary, equity, company_handle) ==
  [kind |-> "select", syntaxOk |-> FALSE, set |-> <<>>,
   where |-> <<[col |-> "title", ph |-> 1], [col |-> "salary", ph |-> 2],
               [col |-> "equity", ph |-> 3], [col |-> "company_handle", ph |-> 4]>>,
   orderBy |-> <<>>, returning |-> Plain(<<"id">>),
   params |-> <<title, salary, equity, company_handle>>]

(* ... company_handle AS "companyHandle`: the quoted name is never closed *)
InsertSql(title, salary, equity, company_handle) ==
  [kind |-> "insert", syntaxOk |-> FALSE,
   set |-> <<[col |-> "title", ph |-> 1], [col |-> "salary", ph |-> 2],
             [col |-> "equity", ph |-> 3], [col |-> "company_handle", ph |-> 4]>>,
   where |-> <<>>, orderBy |-> <<>>,
   returning |-> Plain(<<"id", "title", "salary", "equity">>)
                   \o <<[col |-> "company_handle", as |-> "companyHandle"]>>,
   params |-> <<title, salary, equity, company_handle>>]

FindAllSql ==
  [kind |-> "select", syntaxOk |-> TRUE, set |-> <<>>, where |-> <<>>,
   orderBy |-> <<"name">>,
   returning |-> Plain(<<"id", "title", "salary", "equity">>)
                   \o <<[col |-> "company_handle", as |-> "companyHandle"]>>,
   params |-> <<>>]

(* RETURNING naming the column company_handle *)
UpdateReturningHandle == <<"id", "title", "salary", "equity", "company_handle">>

UpdateReturning == <<"id", "title", "salary", "equity", "company">>

(* the id bound at the last SET placeholder *)
idVarIdxLast(values) == Len(values)

idVarIdx(values) == Len(values) + 1

UpdateSql(id, data) ==
  LET b == sqlForPartialUpdate(data)
  IN [kind |-> "update", syntaxOk |-> TRUE, set |-> b.setCols,
      where |-> <<[col |-> "id", ph |-> idVarIdx(b.values)]>>,
      orderBy |-> <<>>, returning |-> Plain(UpdateReturning),
      params |-> b.values \o <<id>>]

RemoveSql(id) ==
  [kind |-> "delete", syntaxOk |-> TRUE, set |-> <<>>,
   where |-> <<[col |-> "id", ph |-> 1]>>, orderBy |-> <<>>,
   returning |-> Plain(<<"id">>), params |-> <<id>>]

(* on an empty mapping the builder fails with BadRequest ("no data") *)
BuilderThrows(data) == Len(data.keys) = 0

(****************************** inputs *************************************)
(* Job.create reads the key company_handle of its argument; the callers in
   the tests pass the key companyHandle.  A key that is absent is undefined,
   which the driver binds as NULL. *)
CreateInputs ==
  [title : {"t4"}, salary : {20}, equity : {80},
   handleKey : {"companyHandle", "company_handle"},
   handle : {"c1", "nonexistentCompany"}]
  \cup
  [title : {"t1"}, salary : {5}, equity : {20},
   handleKey : {"companyHandle", "company_handle"}, handle : {"c1"}]

NoInput ==
  [title |-> NullStr, salary |-> NullInt, equity |-> NullInt,
   handleKey |-> "companyHandle", handle |-> NullStr]

UpdateKeys == {"title", "salary", "equity", "companyHandle", "company_handle", "id"}

KeySeqs ==
  {s \in UNION {[1..n -> UpdateKeys] : n \in 0..MaxFields} :
     \A i, j \in DOMAIN s : i # j => s[i] # s[j]}

NoData ==
  [keys |-> <<>>, title |-> NullStr, salary |-> NullInt, equity |-> NullInt,
   companyHandle |-> NullStr, company_handle |-> NullStr, id |-> NullInt]

DataInputs ==
  {d \in [keys : KeySeqs, title : {"New Title", NullStr}, salary : {1111, NullInt},
          equity : {99, NullInt}, companyHandle : {"c2", "nonexistentCompany", NullStr},
          company_handle : {"c2", "nonexistentCompany", NullStr}, id : {7, NullInt}] :
     /\ \A k \in UpdateKeys \ Range(d.keys) : d[k] = NoData[k]
     /\ \A k \in {"title", "companyHandle", "company_handle", "id"} \cap Range(d.keys) :
          d[k] # NoData[k]}

IdInputs == {1, 2, -1}

(* findAll is declared without parameters: what a caller passes is dropped *)
NoFilter == [title |-> "", minSalary |-> NullInt, hasEquity |-> "absent"]

FilterInputs ==
  { NoFilter,
    [title |-> "2", minSalary |-> 12, hasEquity |-> "absent"],
    [title |-> "t", minSalary |-> 10, hasEquity |-> "false"],
    [title |-> "t", minSalary |-> 5,  hasEquity |-> "true"],
    [title |-> "T", minSalary |-> NullInt, hasEquity |-> "absent"] }

NoCall == [op |-> "none", id |-> NullInt, input |-> NoInput, data |-> NoData,
           filter |-> NoFilter]

(************************* Job: the code after each await ******************)
Throw(e)  == [pc |-> "done", sent |-> NoQuery, outcome |-> e, ret |-> {}]
Return(v) == [pc |-> "done", sent |-> NoQuery, outcome |-> "ok", ret |-> v]

company_handle(input) ==
  IF input.handleKey = "company_handle" THEN input.handle ELSE NullStr

(* `Duplicate job: ${id}` names a variable that create does not declare:
   building the message throws a ReferenceError *)
AfterDuplicateCheck(c, r) ==
  IF r.err THEN Throw("StorageError")
  ELSE IF r.rows # {} THEN Throw("ReferenceError")
  ELSE [pc |-> "insert",
        sent |-> InsertSql(c.input.title, c.input.salary, c.input.equity,
                           company_handle(c.input)),
        outcome |-> "none", ret |-> {}]

AfterInsert(c, r) ==
  IF r.err THEN Throw("StorageError") ELSE Return(r.rows)

AfterFindAll(c, r) ==
  IF r.err THEN Throw("StorageError") ELSE Return(r.rows)

AfterUpdate(c, r) ==
  IF r.err THEN Throw("StorageError")
  ELSE IF r.rows = {} THEN Throw("NotFoundError")
  ELSE Return(r.rows)

AfterRemove(c, r) ==
  IF r.err THEN Throw("StorageError")
  ELSE IF r.rows = {} THEN Throw("NotFoundError")
  ELSE Return({})

(***************************** Job: actions ********************************)
Ready(p) == pc[p] = "idle"

Start(p, c, at, q, o) ==
  /\ pc'      = [pc EXCEPT ![p] = at]
  /\ call'    = [call EXCEPT ![p] = c]
  /\ sent'    = [sent EXCEPT ![p] = q]
  /\ outcome' = [outcome EXCEPT ![p] = o]
  /\ ret'     = [ret EXCEPT ![p] = {}]
  /\ before'  = [before EXCEPT ![p] = jobs]
  /\ UNCHANGED <<jobs, nextId>>

CallCreate(p, input) ==
  /\ Ready(p)
  /\ nextId <= MaxId
  /\ Start(p, [NoCall EXCEPT !.op = "create", !.input = input], "dupCheck",
           DuplicateCheckSql(input.title, input.salary, input.equity,
                             company_handle(input)), "none")
  /\ UNCHANGED userVars

CallFindAll(p, filter) ==
  /\ Ready(p)
  /\ Start(p, [NoCall EXCEPT !.op = "findAll", !.filter = filter], "findAll", FindAllSql,
           "none")
  /\ UNCHANGED userVars

CallUpdate(p, id, data) ==
  /\ Ready(p)
  /\ IF BuilderThrows(data)
     THEN Start(p, [NoCall EXCEPT !.op = "update", !.id = id, !.data = data],
                "done", NoQuery, "BadRequestError")
     ELSE Start(p, [NoCall EXCEPT !.op = "update", !.id = id, !.data = data],
                "update", UpdateSql(id, data), "none")
  /\ UNCHANGED userVars

CallRemove(p, id) ==
  /\ Ready(p)
  /\ Start(p, [NoCall EXCEPT !.op = "remove", !.id = id], "remove", RemoveSql(id),
           "none")
  /\ UNCHANGED userVars

Resume(at, c, r) ==
  CASE at = "dupCheck" -> AfterDuplicateCheck(c, r)
    [] at = "insert"   -> AfterInsert(c, r)
    [] at = "findAll"  -> AfterFindAll(c, r)
    [] at = "update"   -> AfterUpdate(c, r)
    [] at = "remove"   -> AfterRemove(c, r)

DbRespond(p) ==
  /\ pc[p] \in {"dupCheck", "insert", "findAll", "update", "remove"}
  /\ LET r == DbQuery(jobs, nextId, sent[p])
         n == Resume(pc[p], call[p], r)
     IN /\ jobs'    = r.jobs
        /\ nextId'  = r.seq
        /\ pc'      = [pc EXCEPT ![p] = n.pc]
        /\ sent'    = [sent EXCEPT ![p] = n.sent]
        /\ outcome' = [outcome EXCEPT ![p] = n.outcome]
        /\ ret'     = [ret EXCEPT ![p] = n.ret]
  /\ UNCHANGED <<call, before>>
  /\ UNCHANGED userVars

(* the caller's await ends: it has the value or the error of its call *)
Settle(p) ==
  /\ pc[p] = "done"
  /\ pc'      = [pc EXCEPT ![p] = "idle"]
  /\ call'    = [call EXCEPT ![p] = NoCall]
  /\ sent'    = [sent EXCEPT ![p] = NoQuery]
  /\ outcome' = [outcome EXCEPT ![p] = "none"]
  /\ ret'     = [ret EXCEPT ![p] = {}]
  /\ before'  = [before EXCEPT ![p] = {}]
  /\ UNCHANGED <<jobs, nextId>>
  /\ UNCHANGED userVars

(***************************** users routes ********************************)
(* A request carries the identity token verification attached to it
   (user = "none": no verified identity), the :username of its path and, where
   the route reads them, its body and the :id of its path. *)
NoReq == [route |-> "none", user |-> "none", isAdmin |-> FALSE,
          username |-> "none", bodyValid |-> TRUE, jobId |-> NullInt]

Identities ==
  { [user |-> "none", isAdmin |-> FALSE],
    [user |-> "u1", isAdmin |-> FALSE],
    [user |-> "u2", isAdmin |-> FALSE],
    [user |-> "u3", isAdmin |-> TRUE] }

PathUsers == {"u1", "u2", "u3"}

NewUser == "u4"

(* DELETE /:username bound with ensureLoggedIn instead of ensureAdminOrCurrent *)
RouteGateLoggedIn(route) ==
  CASE route = "POST /"                    -> "ensureUserIsAdmin"
    [] route = "GET /"                     -> "ensureUserIsAdmin"
    [] route = "GET /:username"            -> "ensureAdminOrCurrent"
    [] route = "PATCH /:username"          -> "ensureAdminOrCurrent"
    [] route = "DELETE /:username"         -> "ensureLoggedIn"
    [] route = "POST /:username/jobs/:id"  -> "ensureAdminOrCurrent"

(* the middleware each route is bound with *)
RouteGate(route) ==
  CASE route = "POST /"                    -> "ensureUserIsAdmin"
    [] route = "GET /"                     -> "ensureUserIsAdmin"
    [] route = "GET /:username"            -> "ensureAdminOrCurrent"
    [] route = "PATCH /:username"          -> "ensureAdminOrCurrent"
    [] route = "DELETE /:username"         -> "ensureAdminOrCurrent"
    [] route = "POST /:username/jobs/:id"  -> "ensureAdminOrCurrent"

(* the authorization gate *)
Allows(gate, r) ==
  CASE gate = "ensureLoggedIn"       -> r.user # "none"
    [] gate = "ensureUserIsAdmin"    -> r.user # "none" /\ r.isAdmin
    [] gate = "ensureAdminOrCurrent" ->
         r.user # "none" /\ (r.isAdmin \/ r.user = r.username)

Receive(route, ident, username, bodyValid, jobId) ==
  /\ stage \in {"idle", "done"}
  /\ req' = [route |-> route, user |-> ident.user, isAdmin |-> ident.isAdmin,
             username |-> username, bodyValid |-> bodyValid, jobId |-> jobId]
  /\ stage' = "gate"
  /\ res' = "none"
  /\ userCalls' = <<>>
  /\ UNCHANGED <<users, applications>>
  /\ UNCHANGED jobVars

Gate ==
  /\ stage = "gate"
  /\ IF Allows(RouteGate(req.route), req)
     THEN stage' = "handler" /\ res' = res
     ELSE stage' = "done" /\ res' = "Unauthorized"
  /\ UNCHANGED <<users, applications, req, userCalls>>
  /\ UNCHANGED jobVars

Respond(r) == stage' = "done" /\ res' = r /\ req' = req

Called(op) == userCalls' = Append(userCalls, [op |-> op, username |-> req.username])

PostUsers ==
  /\ stage = "handler" /\ req.route = "POST /"
  /\ IF ~req.bodyValid
     THEN Respond("BadRequest") /\ UNCHANGED <<users, userCalls>>
     ELSE /\ userCalls' = Append(userCalls, [op |-> "register", username |-> NewUser])
          /\ IF NewUser \in users
             THEN Respond("BadRequest") /\ users' = users
             ELSE Respond("ok") /\ users' = users \cup {NewUser}
  /\ UNCHANGED applications
  /\ UNCHANGED jobVars

GetUsers ==
  /\ stage = "handler" /\ req.route = "GET /"
  /\ userCalls' = Append(userCalls, [op |-> "findAll", username |-> "none"])
  /\ Respond("ok")
  /\ UNCHANGED <<users, applications>>
  /\ UNCHANGED jobVars

GetUser ==
  /\ stage = "handler" /\ req.route = "GET /:username"
  /\ Called("get")
  /\ Respond(IF req.username \in users THEN "ok" ELSE "NotFound")
  /\ UNCHANGED <<users, applications>>
  /\ UNCHANGED jobVars

PatchUser ==
  /\ stage = "handler" /\ req.route = "PATCH /:username"
  /\ IF ~req.bodyValid
     THEN Respond("BadRequest") /\ UNCHANGED userCalls
     ELSE Called("update") /\ Respond(IF req.username \in users THEN "ok" ELSE "NotFound")
  /\ UNCHANGED <<users, applications>>
  /\ UNCHANGED jobVars

DeleteUser ==
  /\ stage = "handler" /\ req.route = "DELETE /:username"
  /\ Called("remove")
  /\ Respond(IF req.username \in users THEN "ok" ELSE "NotFound")
  /\ users' = users \ {req.username}
  /\ applications' = {a \in applications : a[1] # req.username}
  /\ UNCHANGED jobVars

(* applying again to the same job is left open by the specification: the
   repeated call either changes nothing or is refused *)
PostUserJob ==
  /\ stage = "handler" /\ req.route = "POST /:username/jobs/:id"
  /\ Called("applyForJob")
  /\ IF req.username \notin users \/ req.jobId \notin {r.id : r \in jobs}
     THEN Respond("NotFound") /\ applications' = applications
     ELSE IF <<req.username, req.jobId>> \in applications
     THEN (Respond("ok") \/ Respond("BadRequest")) /\ applications' = applications
     ELSE Respond("ok") /\ applications' = applications \cup {<<req.username, req.jobId>>}
  /\ UNCHANGED users
  /\ UNCHANGED jobVars

UsersIdle ==
  /\ users = {"u1", "u2", "u3"}
  /\ applications = {}
  /\ req = NoReq
  /\ stage = "idle"
  /\ res = "none"
  /\ userCalls = <<>>

(*************************** specifications ********************************)
JobsInit ==
  /\ jobs \in SUBSET FixtureJobs
  /\ nextId = FirstFreeId
  /\ pc = [p \in Procs |-> "idle"]
  /\ call = [p \in Procs |-> NoCall]
  /\ sent = [p \in Procs |-> NoQuery]
  /\ outcome = [p \in Procs |-> "none"]
  /\ ret = [p \in Procs |-> {}]
  /\ before = [p \in Procs |-> {}]

Init == JobsInit /\ UsersIdle

Next ==
  \E p \in SeqProcs :
    \/ \E input \in CreateInputs : CallCreate(p, input)
    \/ \E filter \in FilterInputs : CallFindAll(p, filter)
    \/ \E id \in IdInputs, data \in DataInputs : CallUpdate(p, id, data)
    \/ \E id \in IdInputs : CallRemove(p, id)
    \/ DbRespond(p)
    \/ Settle(p)

Spec == Init /\ [][Next]_vars

NextConc ==
  \E p \in Procs :
    \/ \E input \in CreateInputs : CallCreate(p, input)
    \/ DbRespond(p)
    \/ Settle(p)

SpecConc == Init /\ [][NextConc]_vars

InitUsers == JobsInit /\ jobs = FixtureJobs /\ UsersIdle

NextUsers ==
  \/ \E ident \in Identities, bodyValid \in BOOLEAN :
       Receive("POST /", ident, "none", bodyValid, NullInt)
  \/ \E ident \in Identities : Receive("GET /", ident, "none", TRUE, NullInt)
  \/ \E ident \in Identities, u \in PathUsers :
       Receive("GET /:username", ident, u, TRUE, NullInt)
  \/ \E ident \in Identities, u \in PathUsers, bodyValid \in BOOLEAN :
       Receive("PATCH /:username", ident, u, bodyValid, NullInt)
  \/ \E ident \in Identities, u \in PathUsers :
       Receive("DELETE /:username", ident, u, TRUE, NullInt)
  \/ \E ident \in Identities, u \in PathUsers, id \in {1, -1} :
       Receive("POST /:username/jobs/:id", ident, u, TRUE, id)
  \/ Gate
  \/ PostUsers
  \/ GetUsers
  \/ GetUser
  \/ PatchUser
  \/ DeleteUser
  \/ PostUserJob

SpecUsers == InitUsers /\ [][NextUsers]_vars

(******************************* properties ********************************)
Ids(t) == {r.id : r \in t}

Done(p, op) == pc[p] = "done" /\ call[p].op = op

(* the record a caller sees for a row *)
JobRecord(r) ==
  [id |-> r.id, title |-> r.title, salary |-> r.salary, equity |-> r.equity,
   companyHandle |-> r.company_handle]

Same(r, input) ==
  /\ r.title = input.title /\ r.salary = input.salary
  /\ r.equity = input.equity /\ r.company_handle = input.handle

GatedRoutes ==
  {"GET /:username", "PATCH /:username", "DELETE /:username", "POST /:username/jobs/:id"}

Denied(r) == r.user = "none" \/ (~r.isAdmin /\ r.user # r.username)

(* C1: on GET, PATCH, DELETE /:username and POST /:username/jobs/:id the gate
   decides before the handler: a request without a verified identity, or with
   a non-admin identity other than :username, never reaches the handler, is
   answered Unauthorized and executes no User model operation; a non-admin
   identity equal to :username and an admin identity are let through. *)
C1_GateBeforeHandler ==
  req.route \in GatedRoutes =>
    /\ Denied(req) =>
         /\ stage # "handler"
         /\ userCalls = <<>>
         /\ stage = "done" => res = "Unauthorized"
    /\ (~Denied(req) /\ stage = "done") =>
         /\ res # "Unauthorized"
         /\ userCalls # <<>> \/ res = "BadRequest"

C1_Witness ==
  /\ req.route \in GatedRoutes /\ stage = "done"
  /\ req.user # "none" /\ Denied(req) /\ res = "Unauthorized"

(* C2: Job.create with a companyHandle that matches no company fails with
   NotFound and leaves the jobs table unchanged. *)
C2_CreateMissingCompanyNotFound ==
  \A p \in SeqProcs :
    (Done(p, "create") /\ call[p].input.handle \notin Companies) =>
      (outcome[p] = "NotFoundError" /\ jobs = before[p])

Chars(s) ==
  CASE s = ""   -> <<>>
    [] s = "t"  -> <<"t">>
    [] s = "T"  -> <<"T">>
    [] s = "2"  -> <<"2">>
    [] s = "t1" -> <<"t", "1">>
    [] s = "t2" -> <<"t", "2">>
    [] s = "t3" -> <<"t", "3">>

Lower(cs) == [i \in DOMAIN cs |-> IF cs[i] = "T" THEN "t" ELSE cs[i]]

Contains(hay, needle) ==
  \E k \in 0..(Len(hay) - Len(needle)) :
    \A i \in 1..Len(needle) : hay[k + i] = needle[i]

Matches(f, r) ==
  /\ Contains(Lower(Chars(r.title)), Lower(Chars(f.title)))
  /\ f.minSalary = NullInt \/ (r.salary # NullInt /\ r.salary >= f.minSalary)
  /\ f.hasEquity # "true" \/ (r.equity # NullInt /\ r.equity > 0)

(* C4: Job.findAll(filter) returns exactly the jobs that satisfy every
   supplied predicate: title contains the substring case-insensitively,
   salary >= minSalary, and, only when hasEquity is true, equity > 0. *)
C4_FindAllFilters ==
  \A p \in SeqProcs :
    Done(p, "findAll") =>
      /\ outcome[p] = "ok"
      /\ ret[p] = {JobRecord(r) : r \in {x \in jobs : Matches(call[p].filter, x)}}

UpdatableKeys == {"title", "salary", "equity", "companyHandle"}

(* an update the contract lets succeed: the id exists, the data is non-empty,
   names updatable fields only and keeps the company reference valid *)
UpdateShouldSucceed(c, table) ==
  /\ c.id \in Ids(table)
  /\ c.data.keys # <<>>
  /\ Range(c.data.keys) \subseteq UpdatableKeys
  /\ "companyHandle" \in Range(c.data.keys) => c.data.companyHandle \in Companies

Updated(r, d) ==
  [id |-> r.id,
   title  |-> IF "title"  \in Range(d.keys) THEN d.title  ELSE r.title,
   salary |-> IF "salary" \in Range(d.keys) THEN d.salary ELSE r.salary,
   equity |-> IF "equity" \in Range(d.keys) THEN d.equity ELSE r.equity,
   company_handle |-> IF "companyHandle" \in Range(d.keys)
                      THEN d.companyHandle ELSE r.company_handle]

(* C5: a successful Job.update(id, data) sets, in the row with that id, exactly
   the fields named in data (null clears a field), leaves the other fields and
   the other rows as they were, and returns the updated record. *)
C5_UpdateFrame ==
  \A p \in SeqProcs :
    (Done(p, "update") /\ UpdateShouldSucceed(call[p], before[p])) =>
      LET old == CHOOSE r \in before[p] : r.id = call[p].id
          new == Updated(old, call[p].data)
      IN /\ outcome[p] = "ok"
         /\ jobs = (before[p] \ {old}) \cup {new}
         /\ ret[p] = {JobRecord(new)}

(* C6: Job.update with empty data fails with BadRequest, whether or not the id
   exists; with non-empty data and an id that matches no row it fails with
   NotFound; the jobs table is unchanged in both cases. *)
C6_UpdateErrors ==
  \A p \in SeqProcs :
    Done(p, "update") =>
      /\ call[p].data.keys = <<>> =>
           (outcome[p] = "BadRequestError" /\ jobs = before[p])
      /\ (call[p].data.keys # <<>> /\ call[p].id \notin Ids(before[p])) =>
           (outcome[p] = "NotFoundError" /\ jobs = before[p])

(* C7: no Job.update(id, data), whatever data holds (an id field included),
   changes the id of a row: the ids of the table are the same after it. *)
C7_UpdateKeepsIds ==
  \A p \in SeqProcs : Done(p, "update") => Ids(jobs) = Ids(before[p])

C7_Witness ==
  \E p \in SeqProcs :
    /\ Done(p, "update")
    /\ call[p].id \in Ids(before[p])
    /\ call[p].data.keys = <<"id">>
    /\ call[p].data.id \notin Ids(before[p])

(* C8: Job.create with the fields of a job already in the table fails with
   BadRequest and inserts nothing; the first create with those fields succeeds
   and returns the new record with the id assigned to it. *)
C8_CreateDuplicate ==
  \A p \in SeqProcs :
    (Done(p, "create") /\ call[p].input.handle \in Companies) =>
      IF \E r \in before[p] : Same(r, call[p].input)
      THEN outcome[p] = "BadRequestError" /\ jobs = before[p]
      ELSE /\ outcome[p] = "ok"
           /\ \E row \in jobs :
                /\ Same(row, call[p].input)
                /\ row.id \notin Ids(before[p])
                /\ jobs = before[p] \cup {row}
                /\ ret[p] = {JobRecord(row)}

(* C9: for a mapping of N >= 1 fields the statement Job.update sends has N SET
   fragments with placeholders 1..N in the mapping's iteration order, the N
   values first and in that order among the bound parameters, and the row id
   bound last, as placeholder N+1, which no SET fragment uses. *)
C9_Placeholders ==
  \A p \in SeqProcs :
    pc[p] = "update" =>
      LET q == sent[p]
          d == call[p].data
          N == Len(d.keys)
      IN /\ N >= 1
         /\ Len(q.set) = N
         /\ Len(q.params) = N + 1
         /\ \A i \in 1..N :
              /\ q.set[i] = [col |-> d.keys[i], ph |-> i]
              /\ q.params[i] = d[d.keys[i]]
         /\ q.where = <<[col |-> "id", ph |-> N + 1]>>
         /\ q.params[N + 1] = call[p].id

C9_Witness ==
  \E p \in SeqProcs :
    /\ pc[p] = "update"
    /\ Len(call[p].data.keys) = MaxFields
    /\ call[p].data.keys[1] = "salary" /\ call[p].data.salary = NullInt

(* C10: when two Job.create calls with the same fields run concurrently, at
   most one inserts a row, the other fails with BadRequest, the table never
   holds two rows for that job and no storage error reaches a caller. *)
C10_ConcurrentCreate ==
  /\ \A r1, r2 \in jobs : [r1 EXCEPT !.id = r2.id] = r2 => r1 = r2
  /\ \A p, q \in Procs :
       (p # q /\ Done(p, "create") /\ Done(q, "create") /\ call[p] = call[q]) =>
         /\ {outcome[p], outcome[q]} \subseteq {"ok", "BadRequestError"}
         /\ ~(outcome[p] = "ok" /\ outcome[q] = "ok")

====
